---- MODULE Spec2Model ----
(***************************************************************************)
(* The chat-turn orchestrator of agent-ui: the ChatInterface component     *)
(* (messages, isProcessing, AgentStatus, the AbortController ref), the     *)
(* ChatInput form that feeds it, the /api/chat relay and the /api/health   *)
(* probe.  One action per event-loop task: a DOM event handler, a promise  *)
(* continuation, a timer tick, a render, or a step of the relay process.   *)
(*                                                                         *)
(* Text is a sequence of atoms.  A typed draft is a sequence of single     *)
(* characters, so that trim() is computed; a string literal of the source  *)
(* that the code never looks inside is one atom.                           *)
(***************************************************************************)
EXTENDS Integers, Sequences, FiniteSets, TLC

\* ------------------------------------------------------------------ bounds
MaxLen == 1
MaxTurns == 2
MaxProbes == 3
MaxElapsed == 0
MaxPrompt == 1

\* ------------------------------------------------------------------- text
Chars == {" ", "a"}

Drafts == UNION {[1..n -> Chars] : n \in 0..MaxLen}

IsWhiteSpace(c) == c = " "

RECURSIVE TrimStart(_)
TrimStart(s) ==
  IF s # <<>> /\ IsWhiteSpace(Head(s)) THEN TrimStart(Tail(s)) ELSE s

RECURSIVE TrimEnd(_)
TrimEnd(s) ==
  IF s # <<>> /\ IsWhiteSpace(s[Len(s)])
  THEN TrimEnd(SubSeq(s, 1, Len(s) - 1))
  ELSE s

\* String.prototype.trim
Trim(s) == TrimEnd(TrimStart(s))

\* String.prototype.includes, on the atoms of a message
Includes(s, atom) == \E i \in 1..Len(s) : s[i] = atom

DigitChar == <<"0", "1", "2", "3", "4", "5", "6", "7", "8", "9">>

\* the decimal rendering of a template literal's ${number}
RECURSIVE NatToString(_)
NatToString(n) ==
  IF n < 10 THEN <<DigitChar[n + 1]>>
  ELSE NatToString(n \div 10) \o <<DigitChar[(n % 10) + 1]>>

\* an optional field: absent, or one value
None == {}
Some(x) == {x}
The(opt) == CHOOSE x \in opt : TRUE

\* what reading an absent property yields
Undefined == <<"undefined">>

\* a JavaScript truthiness test of an optional string field
Truthy(opt) == opt # None /\ The(opt) # <<>>

SUGGESTED_PROMPTS ==
  << <<"Calculate the factorial of 10">>,
     <<"Write a Python function to reverse a string">>,
     <<"Explain quantum computing in simple terms">>,
     <<"Generate a secure random password">> >>

\* ----------------------------------------------------- the relay, /api/chat
\* what the Python backend can do with the relay's request
BackendData ==
  [response : {None, Some(<<>>), Some(<<"4">>)},
   result : {None, Some(<<"r">>)},
   executionTime : {None, Some(7)},
   thinking : {None, Some(<<"trace">>)}]

\* a backend answer the relay does not read
NoData ==
  [response |-> None, result |-> None, executionTime |-> None,
   thinking |-> None]

BackendOutcomes ==
  [kind : {"ok"}, data : BackendData, status : {200}]
    \cup [kind : {"status"}, data : {NoData}, status : {404, 500}]
    \cup [kind : {"timeout", "refused", "badjson"}, data : {NoData},
          status : {0}]

\* the error the relay's try block throws for a backend outcome
RelayError(backend) ==
  CASE backend.kind = "timeout" ->
         [name |-> "TimeoutError",
          message |-> <<"The operation was aborted due to ", "timeout">>]
    [] backend.kind = "refused" ->
         [name |-> "TypeError", message |-> <<"fetch failed">>]
    [] backend.kind = "badjson" ->
         [name |-> "SyntaxError", message |-> <<"Unexpected token">>]
    [] OTHER ->
         [name |-> "Error",
          message |-> <<"Python backend responded with status: ">>
                        \o NatToString(backend.status)]

ErrorBody(text) ==
  [response |-> None, error |-> Some(text), executionTime |-> None,
   thinking |-> None]

\* a catch block that answers 500 whatever the error
RelayCatchAllInternal(error) ==
  [status |-> 500, body |-> ErrorBody(<<"Internal server error">>)]

\* the relay's catch block
RelayCatch(error) ==
  IF error.name = "AbortError" \/ Includes(error.message, "timeout")
  THEN [status |-> 408,
        body |-> ErrorBody(<<"Request timeout - the agent took too long to respond">>)]
  ELSE IF Includes(error.message, "ECONNREFUSED")
            \/ Includes(error.message, "fetch failed")
       THEN [status |-> 503,
             body |-> ErrorBody(<<"Cannot connect to AI agent. Please make sure the Python backend is running.">>)]
       ELSE [status |-> 500, body |-> ErrorBody(<<"Internal server error">>)]

\* data.response || data.result || 'No response from agent'
ReplyText(data) ==
  IF Truthy(data.response) THEN The(data.response)
  ELSE IF Truthy(data.result) THEN The(data.result)
       ELSE <<"No response from agent">>

\* the relay's answer once the backend has settled
RelayPOST(message, backend) ==
  IF backend.kind = "ok"
  THEN [status |-> 200,
        body |-> [response |-> Some(ReplyText(backend.data)), error |-> None,
                  executionTime |-> backend.data.executionTime,
                  thinking |-> backend.data.thinking]]
  ELSE RelayCatch(RelayError(backend))

\* the relay's check of the request body, before it calls the backend
RelayRejects(message) == message = <<>>

BadRequest ==
  [status |-> 400, body |-> ErrorBody(<<"Message is required and must be a string">>)]

\* Response.ok
ResponseOk(resp) == resp.status >= 200 /\ resp.status <= 299

\* --------------------------------------------------- the probe, /api/health
HealthOutcomes == {"ok", "notok", "throws"}

\* the health route: 200 when the backend's /health answers ok, else 503
HealthGET(backendHealth) ==
  IF backendHealth = "ok" THEN [status |-> 200] ELSE [status |-> 503]

\* what the client's fetch of /api/health can settle with
ProbeOutcomes ==
  {[kind |-> "response", resp |-> HealthGET(h)] : h \in HealthOutcomes}
    \cup {[kind |-> "networkError", resp |-> [status |-> 0]]}

\* checkConnection taking any response for a live backend
CheckConnectionAnyResponse(outcome) ==
  [isConnected |-> outcome.kind = "response", threw |-> FALSE]

\* checkConnection: the flag it writes, and whether it threw
CheckConnection(outcome) ==
  IF outcome.kind = "response"
  THEN [isConnected |-> ResponseOk(outcome.resp), threw |-> FALSE]
  ELSE [isConnected |-> FALSE, threw |-> FALSE]

\* ------------------------------------------------------ ChatInterface state
VARIABLES
  messages,            \* useState<Message[]>
  isProcessing,        \* useState(false)
  isMounted,           \* useState(false)
  status,              \* useState<AgentStatus>
  abortControllerRef,  \* useRef<AbortController | null>
  message,             \* ChatInput's draft, useState('')
  view,                \* the state the handlers on screen were rendered with
  controllers,         \* signal.aborted of every AbortController created
  calls,               \* the handleSendMessage invocations, in order
  chatReqs,            \* the POST /api/chat request of each invocation
  nextId,              \* the ids generateId has not handed out yet
  probes,              \* the GET /api/health fetches, in issue order
  interval,            \* whether the setInterval timer is registered
  probeLog,            \* the probes whose setStatus was applied, in order
  unhandled,           \* whether an exception escaped one of the handlers
  tornDown             \* whether React has unmounted the component

turnVars ==
  <<messages, isProcessing, status, abortControllerRef, controllers, calls,
    chatReqs, nextId>>

healthVars == <<probes, interval, probeLog, tornDown>>

vars ==
  <<messages, isProcessing, isMounted, status, abortControllerRef, message,
    view, controllers, calls, chatReqs, nextId, probes, interval, probeLog,
    unhandled, tornDown>>

\* abortControllerRef.current === null
Null == 0

\* the closure values and props a render hands to the handlers
Snapshot(mounted, processing, agentStatus, msgs) ==
  [isMounted |-> mounted, isProcessing |-> processing,
   isConnected |-> agentStatus.isConnected, empty |-> Len(msgs) = 0]

\* the props ChatInput is rendered with (both branches of the return)
PropDisabled == IF view.isMounted THEN ~view.isConnected ELSE TRUE

PropIsProcessing == IF view.isMounted THEN view.isProcessing ELSE FALSE

Pending == [kind |-> "pending", text |-> <<>>]

Init ==
  /\ messages = <<>>
  /\ isProcessing = FALSE
  /\ isMounted = FALSE
  /\ status = [isConnected |-> TRUE, isProcessing |-> FALSE,
               model |-> "qwen3:latest", endpoint |-> "http://localhost:11434"]
  /\ abortControllerRef = Null
  /\ message = <<>>
  /\ view = Snapshot(FALSE, FALSE, status, <<>>)
  /\ controllers = <<>>
  /\ calls = <<>>
  /\ chatReqs = <<>>
  /\ nextId = 1
  /\ probes = <<>>
  /\ interval = FALSE
  /\ probeLog = <<>>
  /\ unhandled = FALSE
  /\ tornDown = FALSE

\* a turn whose sendToAgent has not settled
InFlight(t) == t \in DOMAIN calls /\ calls[t].pc = "await"

Busy == \E t \in DOMAIN calls : InFlight(t)

Idle == ~Busy

Aborted(t) == controllers[calls[t].controller]

\* an aborted fetch has rejected and its continuation is queued as a microtask:
\* it runs before any other task of the page
AbortPending == \E t \in DOMAIN calls : InFlight(t) /\ Aborted(t)

\* --------------------------------------------------------------- messages
\* generateId: a fresh opaque identifier
GenerateId(n) == n

UserMessage(id, content, ts) ==
  [id |-> id, content |-> content, role |-> "user", timestamp |-> ts,
   status |-> "sent", executionTime |-> None, thinking |-> None]

AssistantMessage(id, ts) ==
  [id |-> id, content |-> <<>>, role |-> "assistant", timestamp |-> ts,
   status |-> "sending", executionTime |-> None, thinking |-> None]

\* the new message put first
PrependMessage(prev, m) == <<m>> \o prev

\* setMessages(prev => [...prev, m])
AppendMessage(prev, m) == Append(prev, m)

\* the success update without the reply text
ResolveSuccessStatusOnly(prev, id, response, executionTime) ==
  [i \in DOMAIN prev |->
     IF prev[i].id = id THEN [prev[i] EXCEPT !.status = "sent"] ELSE prev[i]]

\* the success update without the id test
ResolveSuccessAll(prev, id, response, executionTime) ==
  [i \in DOMAIN prev |->
     [prev[i] EXCEPT !.content = response, !.status = "sent",
                     !.executionTime = Some(executionTime)]]

\* setMessages(prev => prev.map(msg => msg.id === id ? {...msg, ...} : msg)), try
ResolveSuccess(prev, id, response, executionTime) ==
  [i \in DOMAIN prev |->
     IF prev[i].id = id
     THEN [prev[i] EXCEPT !.content = response, !.status = "sent",
                          !.executionTime = Some(executionTime)]
     ELSE prev[i]]

\* the failure update without the id test
ResolveFailureAll(prev, id, errorMessage) ==
  [i \in DOMAIN prev |->
     [prev[i] EXCEPT !.content = errorMessage, !.status = "error"]]

\* a catch block that leaves the ledger alone
ResolveFailureDropped(prev, id, errorMessage) == prev

\* a catch block that also stamps an execution time
ResolveFailureTimed(prev, id, errorMessage) ==
  [i \in DOMAIN prev |->
     IF prev[i].id = id
     THEN [prev[i] EXCEPT !.content = errorMessage, !.status = "error",
                          !.executionTime = Some(0)]
     ELSE prev[i]]

\* a catch block that sets the status and leaves the content for later
ResolveFailureStatusOnly(prev, id, errorMessage) ==
  [i \in DOMAIN prev |->
     IF prev[i].id = id THEN [prev[i] EXCEPT !.status = "error"] ELSE prev[i]]

\* the same map in the catch block
ResolveFailure(prev, id, errorMessage) ==
  [i \in DOMAIN prev |->
     IF prev[i].id = id
     THEN [prev[i] EXCEPT !.content = errorMessage, !.status = "error"]
     ELSE prev[i]]

\* ------------------------------------------------------------ sendToAgent
Return(text) == [kind |-> "return", text |-> text]

Throw(text) == [kind |-> "throw", text |-> text]

HttpErrorMessage(resp) == <<"HTTP error! status: ">> \o NatToString(resp.status)

\* data.response of the parsed body
DataResponse(body) ==
  IF body.response = None THEN Undefined ELSE The(body.response)

\* sendToAgent rethrowing the AbortError as it is
SendToAgentRethrows(outcome) ==
  CASE outcome.kind = "abort" -> Throw(<<"signal is aborted without reason">>)
    [] outcome.kind = "networkError" -> Throw(<<"Failed to fetch">>)
    [] outcome.kind = "response" /\ ~ResponseOk(outcome.resp) ->
         Throw(HttpErrorMessage(outcome.resp))
    [] OTHER -> Return(DataResponse(outcome.resp.body))

\* what sendToAgent returns or throws for the way its fetch settled
SendToAgent(outcome) ==
  CASE outcome.kind = "abort" -> Throw(<<"Request was cancelled">>)
    [] outcome.kind = "networkError" -> Throw(<<"Failed to fetch">>)
    [] outcome.kind = "response" /\ ~ResponseOk(outcome.resp) ->
         Throw(HttpErrorMessage(outcome.resp))
    [] OTHER -> Return(DataResponse(outcome.resp.body))

\* ------------------------------------------------------- handleSendMessage
\* if (isProcessing || !isMounted) return
SendGuard(closureIsProcessing, closureIsMounted) ==
  ~(closureIsProcessing \/ ~closureIsMounted)

\* a submit that does not raise the flag
ProcessingNotSet == FALSE

\* setIsProcessing(true)
ProcessingOnSend == TRUE

\* a submit that leaves AgentStatus as it is
StatusOnSendKept(agentStatus) == agentStatus

\* a submit that writes a whole new AgentStatus
StatusOnSendReset(agentStatus) ==
  [agentStatus EXCEPT !.isProcessing = TRUE, !.isConnected = TRUE]

\* setStatus(prev => ({ ...prev, isProcessing: true }))
StatusOnSend(agentStatus) == [agentStatus EXCEPT !.isProcessing = TRUE]

\* sendToAgent handing out the controller of the turn before
ReusedController(ctrls) == IF ctrls = <<>> THEN 1 ELSE Len(ctrls)

\* new AbortController(): one that no turn has held
NewController(ctrls) == Len(ctrls) + 1

\* handleSendMessage up to its await: both appends, the flags, and
\* sendToAgent up to its fetch
StartTurn(content) ==
  LET userId == GenerateId(nextId)
      assistantMessageId == GenerateId(nextId + 1)
      ctrl == NewController(controllers)
      ts == Len(calls) + 1
  IN /\ messages' = AppendMessage(AppendMessage(messages,
                                    UserMessage(userId, content, ts)),
                                  AssistantMessage(assistantMessageId, ts))
     /\ isProcessing' = ProcessingOnSend
     /\ status' = StatusOnSend(status)
     /\ abortControllerRef' = ctrl
     /\ controllers' = Append(controllers, FALSE)
     /\ calls' = Append(calls, [assistantMessageId |-> assistantMessageId,
                                content |-> content, controller |-> ctrl,
                                pc |-> "await", result |-> Pending])
     /\ chatReqs' = Append(chatReqs, [stage |-> "toRelay", message |-> content,
                                      resp |-> None])
     /\ nextId' = nextId + 2
     \* the updates of a discrete event are rendered before the next event
     /\ view' = [view EXCEPT !.isProcessing = isProcessing',
                             !.empty = Len(messages') = 0]

HandleSendMessage(content) ==
  IF SendGuard(view.isProcessing, view.isMounted)
  THEN StartTurn(content)
  ELSE UNCHANGED <<turnVars, view>>

\* a finally block that keeps the controller
RefKept(ref) == ref

\* abortControllerRef.current = null, in the finally block
RefAfterFinally(ref) == Null

\* a finally block that runs only after the try block
ProcessingClearedOnSuccessOnly(r) == r.kind # "return"

\* setIsProcessing(false), in the finally block, whatever sendToAgent did
ProcessingAfterFinally(r) == FALSE

\* the continuation of handleSendMessage after its await: try or catch, finally
Settle(t, outcome, elapsed) ==
  LET r == SendToAgent(outcome)
      id == calls[t].assistantMessageId
  IN /\ messages' = IF r.kind = "return"
                    THEN ResolveSuccess(messages, id, r.text, elapsed)
                    ELSE ResolveFailure(messages, id, r.text)
     /\ isProcessing' = ProcessingAfterFinally(r)
     /\ status' = [status EXCEPT !.isProcessing = FALSE]
     /\ abortControllerRef' = RefAfterFinally(abortControllerRef)
     /\ calls' = [calls EXCEPT ![t].pc = "done", ![t].result = r]

\* --------------------------------------------------------------- ChatInput
\* the submit test on the untrimmed draft
CanSubmitNoTrim(draft, propIsProcessing, propDisabled) ==
  draft # <<>> /\ ~propIsProcessing /\ ~propDisabled

\* message.trim() && !isProcessing && !disabled
CanSubmit(draft, propIsProcessing, propDisabled) ==
  Trim(draft) # <<>> /\ ~propIsProcessing /\ ~propDisabled

\* ---------------------------------------------------------------- actions
\* the effects that run after the first render: setIsMounted(true), the first
\* checkConnection() and setInterval
Mount ==
  /\ ~isMounted
  /\ isMounted' = TRUE
  /\ probes' = Append(probes, "pending")
  /\ interval' = TRUE
  /\ UNCHANGED <<turnVars, message, view, probeLog, unhandled, tornDown>>

\* React commits the state that promise continuations, effects and timers set
Render ==
  /\ ~AbortPending
  /\ ~tornDown
  /\ view # Snapshot(isMounted, isProcessing, status, messages)
  /\ view' = Snapshot(isMounted, isProcessing, status, messages)
  /\ UNCHANGED <<turnVars, isMounted, message, healthVars, unhandled>>

\* the textarea's onChange; a disabled textarea takes no input
SetMessage(text) ==
  /\ ~AbortPending
  /\ ~PropDisabled
  /\ text # message
  /\ message' = text
  /\ UNCHANGED <<turnVars, isMounted, view, healthVars, unhandled>>

\* ChatInput.handleSubmit: the form's submit event, or Enter in the textarea
HandleSubmit ==
  LET can == CanSubmit(message, PropIsProcessing, PropDisabled)
      accepted == can /\ SendGuard(view.isProcessing, view.isMounted)
  IN /\ ~AbortPending
     /\ accepted => Len(calls) < MaxTurns
     /\ IF can
        THEN HandleSendMessage(Trim(message)) /\ message' = <<>>
        ELSE UNCHANGED <<turnVars, view, message>>
     /\ UNCHANGED <<isMounted, healthVars, unhandled>>

\* onClick of a suggested prompt, rendered while the ledger is empty
ClickPrompt(i) ==
  LET accepted == SendGuard(view.isProcessing, view.isMounted)
  IN /\ ~AbortPending
     /\ view.isMounted /\ view.empty
     /\ accepted => Len(calls) < MaxTurns
     /\ HandleSendMessage(SUGGESTED_PROMPTS[i])
     /\ UNCHANGED <<isMounted, message, healthVars, unhandled>>

\* the send/stop button is the stop button while isProcessing, and takes
\* clicks unless disabled
StopClickable == PropIsProcessing /\ ~PropDisabled

\* ChatInput.handleStop -> handleStopProcessing
HandleStopProcessing ==
  /\ ~AbortPending
  /\ StopClickable
  /\ controllers' = IF abortControllerRef # Null
                    THEN [controllers EXCEPT ![abortControllerRef] = TRUE]
                    ELSE controllers
  /\ UNCHANGED <<messages, isProcessing, status, abortControllerRef, calls,
                 chatReqs, nextId, isMounted, message, view, healthVars,
                 unhandled>>

\* the aborted fetch rejects with an AbortError
AbortSettle(t) ==
  /\ InFlight(t) /\ Aborted(t)
  /\ Settle(t, [kind |-> "abort"], 0)
  /\ chatReqs' = IF chatReqs[t].stage = "toClient"
                 THEN [chatReqs EXCEPT ![t].stage = "closed", ![t].resp = None]
                 ELSE chatReqs
  /\ UNCHANGED <<controllers, nextId, isMounted, message, view, healthVars,
                 unhandled>>

\* the relay's response reaches the page
DeliverResponse(t) ==
  /\ InFlight(t) /\ ~Aborted(t)
  /\ chatReqs[t].stage = "toClient"
  /\ \E elapsed \in 0..MaxElapsed :
       Settle(t, [kind |-> "response", resp |-> The(chatReqs[t].resp)], elapsed)
  /\ chatReqs' = [chatReqs EXCEPT ![t].stage = "closed", ![t].resp = None]
  /\ UNCHANGED <<controllers, nextId, isMounted, message, view, healthVars,
                 unhandled>>

\* the page cannot reach the relay: fetch rejects with a TypeError
FetchFails(t) ==
  /\ InFlight(t) /\ ~Aborted(t)
  /\ chatReqs[t].stage = "toRelay"
  /\ Settle(t, [kind |-> "networkError"], 0)
  /\ chatReqs' = [chatReqs EXCEPT ![t].stage = "lost"]
  /\ UNCHANGED <<controllers, nextId, isMounted, message, view, healthVars,
                 unhandled>>

\* the relay's POST handler up to its fetch of the backend
RelayReceive(t) ==
  /\ t \in DOMAIN chatReqs
  /\ chatReqs[t].stage = "toRelay"
  /\ chatReqs' = IF RelayRejects(chatReqs[t].message)
                 THEN [chatReqs EXCEPT ![t].stage = "toClient",
                                       ![t].resp = Some(BadRequest)]
                 ELSE [chatReqs EXCEPT ![t].stage = "atBackend"]
  /\ UNCHANGED <<messages, isProcessing, status, abortControllerRef,
                 controllers, calls, nextId, isMounted, message, view,
                 healthVars, unhandled>>

\* the backend fetch settles and the relay answers; an answer to a page that
\* no longer waits is dropped
BackendSettle(t, backend) ==
  /\ t \in DOMAIN chatReqs
  /\ chatReqs[t].stage = "atBackend"
  /\ chatReqs' = IF InFlight(t)
                 THEN [chatReqs EXCEPT
                         ![t].stage = "toClient",
                         ![t].resp = Some(RelayPOST(chatReqs[t].message, backend))]
                 ELSE [chatReqs EXCEPT ![t].stage = "closed"]
  /\ UNCHANGED <<messages, isProcessing, status, abortControllerRef,
                 controllers, calls, nextId, isMounted, message, view,
                 healthVars, unhandled>>

\* the setInterval callback: checkConnection up to its fetch
Tick ==
  /\ ~AbortPending
  /\ interval
  /\ Len(probes) < MaxProbes
  /\ probes' = Append(probes, "pending")
  /\ UNCHANGED <<turnVars, isMounted, message, view, interval, probeLog,
                 unhandled, tornDown>>

\* a cleanup that leaves the timer registered
IntervalKept == TRUE

\* return () => clearInterval(interval): the timer is no longer registered
IntervalAfterCleanup == FALSE

\* nothing of the component is on screen
NoScreen ==
  [isMounted |-> FALSE, isProcessing |-> FALSE, isConnected |-> FALSE,
   empty |-> TRUE]

\* React unmounts the component and runs the effect's cleanup; the state of
\* ChatInput goes with it.  Teardown is taken between turns: with a turn in
\* flight there is no ledger left for its continuation to settle into.
Unmount ==
  /\ isMounted /\ ~tornDown
  /\ Idle
  /\ tornDown' = TRUE
  /\ interval' = IntervalAfterCleanup
  /\ view' = NoScreen
  /\ message' = <<>>
  /\ UNCHANGED <<turnVars, isMounted, probes, probeLog, unhandled>>

\* a health fetch settles: the rest of checkConnection
ProbeSettle(p, outcome) ==
  LET r == CheckConnection(outcome)
  IN /\ ~AbortPending
     /\ p \in DOMAIN probes
     /\ probes[p] = "pending"
     /\ unhandled' = (unhandled \/ r.threw)
     /\ IF tornDown
        THEN \* React drops an update queued on an unmounted component
             /\ probes' = [probes EXCEPT ![p] = "dropped"]
             /\ UNCHANGED <<status, probeLog>>
        ELSE /\ probes' = [probes EXCEPT ![p] = "settled"]
             /\ status' = [status EXCEPT !.isConnected = r.isConnected]
             /\ probeLog' = Append(probeLog,
                                   [ok |-> outcome.kind = "response"
                                             /\ outcome.resp.status \in 200..299,
                                    flag |-> r.isConnected])
     /\ UNCHANGED <<messages, isProcessing, abortControllerRef, controllers,
                    calls, chatReqs, nextId, isMounted, message, view,
                    interval, tornDown>>

Next ==
  \/ Mount
  \/ Render
  \/ \E text \in Drafts : SetMessage(text)
  \/ HandleSubmit
  \/ \E i \in 1..MaxPrompt : ClickPrompt(i)
  \/ HandleStopProcessing
  \/ \E t \in 1..MaxTurns : AbortSettle(t)
  \/ \E t \in 1..MaxTurns : DeliverResponse(t)
  \/ \E t \in 1..MaxTurns : FetchFails(t)
  \/ \E t \in 1..MaxTurns : RelayReceive(t)
  \/ \E t \in 1..MaxTurns, backend \in BackendOutcomes : BackendSettle(t, backend)
  \/ Tick
  \/ Unmount
  \/ \E p \in 1..MaxProbes, outcome \in ProbeOutcomes : ProbeSettle(p, outcome)

Spec == Init /\ [][Next]_vars

\* Every promise settles and every continuation runs: the relay's backend fetch
\* carries AbortSignal.timeout, the event loop runs queued tasks, React renders.
Fairness ==
  /\ WF_vars(Render)
  /\ WF_vars(\E t \in 1..MaxTurns : AbortSettle(t))
  /\ WF_vars(\E t \in 1..MaxTurns : DeliverResponse(t) \/ FetchFails(t))
  /\ WF_vars(\E t \in 1..MaxTurns : RelayReceive(t))
  /\ WF_vars(\E t \in 1..MaxTurns, backend \in BackendOutcomes :
               BackendSettle(t, backend))

FairSpec == Spec /\ Fairness

\* The page alone: its event loop runs queued continuations and React renders,
\* while nothing is assumed of the relay, which may never answer.
ClientFairness ==
  /\ WF_vars(Render)
  /\ WF_vars(\E t \in 1..MaxTurns : AbortSettle(t))
  /\ WF_vars(\E t \in 1..MaxTurns : DeliverResponse(t) \/ FetchFails(t))

ClientFairSpec == Spec /\ ClientFairness

\* ------------------------------------------------------------- properties
\* the position of the message with this id in a ledger
IndexOf(msgs, id) == CHOOSE i \in DOMAIN msgs : msgs[i].id = id

\* the assistant message of turn t
AssistantOf(t) == messages[IndexOf(messages, calls[t].assistantMessageId)]

\* the state a submit must leave alone when it is rejected
ledgerAndTurn ==
  <<messages, isProcessing, status, abortControllerRef, controllers, calls,
    chatReqs>>

\* a step of either submission path: the form, or a suggested prompt
SubmitStep == HandleSubmit \/ \E i \in DOMAIN SUGGESTED_PROMPTS : ClickPrompt(i)

PromptTitles == {SUGGESTED_PROMPTS[i] : i \in DOMAIN SUGGESTED_PROMPTS}

\* C1: a step that starts a turn starts it from Idle with a non-empty text and
\* appends to the ledger exactly the user message (sent, content = the text
\* handed to handleSendMessage) and then the assistant placeholder (sending,
\* empty); and while a turn's request has not settled both are in the ledger.
C1_SubmitAppendsUserThenPlaceholder ==
  [][/\ Len(calls') # Len(calls) =>
          LET t == Len(calls')
              c == calls'[t]
              n == Len(messages)
          IN /\ Len(calls') = Len(calls) + 1
             /\ Idle
             /\ SubmitStep
             /\ c.content # <<>>
             /\ c.content \in {Trim(message)} \cup PromptTitles
             /\ HandleSubmit => c.content = Trim(message)
             /\ Len(messages') = n + 2
             /\ SubSeq(messages', 1, n) = messages
             /\ messages'[n + 1].role = "user"
             /\ messages'[n + 1].status = "sent"
             /\ messages'[n + 1].content = c.content
             /\ messages'[n + 2].role = "assistant"
             /\ messages'[n + 2].status = "sending"
             /\ messages'[n + 2].content = <<>>
             /\ messages'[n + 2].id = c.assistantMessageId
             /\ c.pc = "await"
             /\ chatReqs'[t].stage = "toRelay"
     /\ Len(messages') # Len(messages) => Len(calls') = Len(calls) + 1
     /\ \A t \in DOMAIN calls' :
          calls'[t].pc = "await" =>
            /\ 2 * t <= Len(messages')
            /\ messages'[2 * t - 1].role = "user"
            /\ messages'[2 * t - 1].content = calls'[t].content
            /\ messages'[2 * t].id = calls'[t].assistantMessageId
            /\ messages'[2 * t].status = "sending"
    ]_vars

C1_Witness ==
  /\ Len(messages) = 2
  /\ messages[1].content = <<"a">>
  /\ messages[2].status = "sending"
  /\ InFlight(1)
  /\ chatReqs[1].stage = "toRelay"

\* C2: a submit (from the form or from a suggested prompt) while a turn is in
\* flight appends no message, sends no request and leaves isProcessing, the
\* status, the controller ref and the turn in flight as they are.
C2_SubmitWhileBusyIsNoOp ==
  [][SubmitStep /\ Busy => UNCHANGED ledgerAndTurn]_vars

\* a turn in flight, a non-empty draft in an enabled form: Enter is a submit
\* while Busy, and leaves this state as it is
C2_Witness ==
  /\ Busy
  /\ isProcessing
  /\ Trim(message) # <<>>
  /\ ~PropDisabled

\* C3: a submit while status.isConnected is false, from the form or from a
\* suggested prompt, appends no message and sends no request.
C3_SubmitWhileDisconnectedIsNoOp ==
  [][SubmitStep /\ ~status.isConnected =>
       UNCHANGED ledgerAndTurn]_vars

\* C4: a submit whose draft is empty or only whitespace changes nothing, and
\* no turn and no user message ever carries an empty or whitespace-only text.
C4_EmptySubmitRejected ==
  [][/\ HandleSubmit /\ Trim(message) = <<>> =>
          UNCHANGED ledgerAndTurn
     /\ \A t \in DOMAIN calls' : Trim(calls'[t].content) # <<>>
     /\ \A i \in DOMAIN messages' :
          messages'[i].role = "user" => Trim(messages'[i].content) # <<>>
    ]_vars

\* a whitespace-only draft in an enabled, idle form: Enter is an empty submit
C4_Witness ==
  /\ message = <<" ">>
  /\ ~PropDisabled
  /\ ~PropIsProcessing
  /\ Idle
  /\ messages = <<>>

\* C5: an assistant message keeps its place and id, leaves sending only for
\* sent or error, and once sent or error keeps that status for good.
C5_AssistantStatusChangesOnce ==
  [][\A i \in DOMAIN messages :
       messages[i].role = "assistant" =>
         /\ i \in DOMAIN messages'
         /\ messages'[i].id = messages[i].id
         /\ messages'[i].role = "assistant"
         /\ messages'[i].status \in {"sending", "sent", "error"}
         /\ messages[i].status # "sending" =>
              messages'[i].status = messages[i].status
    ]_vars

C5_Witness ==
  /\ Len(messages) = 4
  /\ messages[2].status = "sent"
  /\ messages[4].status = "error"

C7_CancelWhileBusy ==
  /\ [][HandleStopProcessing /\ Busy =>
          /\ \E t \in DOMAIN calls : InFlight(t) /\ InFlight(t)' /\ Aborted(t)'
          /\ UNCHANGED <<messages, isProcessing, status, calls>>]_vars
  /\ \A t \in 1..MaxTurns :
       (InFlight(t) /\ Aborted(t))
         ~> /\ t \in DOMAIN calls
            /\ calls[t].pc = "done"
            /\ AssistantOf(t).status = "error"
            /\ AssistantOf(t).content = <<"Request was cancelled">>

C7_Witness ==
  /\ Len(calls) = 1
  /\ calls[1].pc = "done"
  /\ controllers[calls[1].controller]
  /\ messages[2].status = "error"
  /\ messages[2].content = <<"Request was cancelled">>
  /\ ~isProcessing

\* C8: a stop with no turn in flight finds no controller and changes nothing
\* of the program's state, so whatever follows starts from the same state.
C8_CancelWhileIdleIsNoOp ==
  [][HandleStopProcessing /\ Idle =>
       /\ abortControllerRef = Null
       /\ UNCHANGED <<messages, isProcessing, isMounted, status,
                      abortControllerRef, message, view, controllers, calls,
                      chatReqs, nextId, probes, interval, probeLog,
                      unhandled, tornDown>>]_vars

\* the stop button still on screen after its turn has settled: a click is a
\* stop while Idle
C8_Witness ==
  /\ StopClickable
  /\ abortControllerRef = Null
  /\ Len(calls) > 0
  /\ Idle
  /\ ~isProcessing
  /\ status.isConnected

\* C9: every settled probe left isConnected equal to whether it got an HTTP
\* success, none threw, and isConnected is the flag the last settled probe
\* wrote: outcomes ok, fail, ok give true, false, true.
C9_ProbeSetsFlag ==
  /\ \A i \in DOMAIN probeLog : probeLog[i].flag = probeLog[i].ok
  /\ probeLog # <<>> => status.isConnected = probeLog[Len(probeLog)].ok
  /\ ~unhandled

C9_Witness ==
  /\ probeLog = <<[ok |-> TRUE, flag |-> TRUE], [ok |-> FALSE, flag |-> FALSE],
                  [ok |-> TRUE, flag |-> TRUE]>>
  /\ status.isConnected

\* C10: when the relay's 2xx response settles a turn, that turn's placeholder
\* goes from sending to sent with the response's reply text as content, and
\* isProcessing and status.isProcessing become false with no turn in flight.
C10_SuccessResolves ==
  [][\A t \in DOMAIN calls :
       (/\ InFlight(t) /\ ~Aborted(t)
        /\ chatReqs[t].stage = "toClient"
        /\ The(chatReqs[t].resp).status \in 200..299
        /\ calls'[t].pc = "done") =>
         LET i == IndexOf(messages, calls[t].assistantMessageId)
         IN /\ messages[i].status = "sending"
            /\ messages'[i].status = "sent"
            /\ messages'[i].content = The(The(chatReqs[t].resp).body.response)
            /\ messages'[i].role = "assistant"
            /\ ~isProcessing'
            /\ ~status'.isProcessing
            /\ Idle'
    ]_vars

C10_Witness ==
  /\ Len(calls) = 1
  /\ calls[1].result = Return(<<"4">>)
  /\ messages[2].status = "sent"
  /\ messages[2].content = <<"4">>
  /\ ~isProcessing
  /\ Idle

\* a turn settles in this step: its sendToAgent was awaited and now is done
Settles(t) == InFlight(t) /\ calls'[t].pc = "done"

\* C11: when a 2xx response settles a turn, the assistant message's thinking
\* and executionTime are the ones in the response body (absent when absent).
C11_OptionalFieldsPassedThrough ==
  [][\A t \in DOMAIN calls :
       (/\ Settles(t)
        /\ calls'[t].result.kind = "return"
        /\ chatReqs[t].resp # None) =>
         LET i == IndexOf(messages, calls[t].assistantMessageId)
             body == The(chatReqs[t].resp).body
         IN /\ messages'[i].thinking = body.thinking
            /\ messages'[i].executionTime = body.executionTime
    ]_vars

\* C12: when a turn settles with a failure (an aborted, a rejected or a
\* non-2xx fetch), its placeholder goes from sending to error with the thrown
\* error's message as content and no executionTime, both isProcessing flags
\* become false, and every other message, the turn's user message among them,
\* is as before.
C12_FailureResolves ==
  [][\A t \in DOMAIN calls :
       (Settles(t) /\ calls'[t].result.kind = "throw") =>
         LET i == IndexOf(messages, calls[t].assistantMessageId)
         IN /\ messages[i].status = "sending"
            /\ messages'[i].status = "error"
            /\ messages'[i].content = calls'[t].result.text
            /\ messages'[i].content # <<>>
            /\ AbortSettle(t) =>
                 messages'[i].content = <<"Request was cancelled">>
            /\ FetchFails(t) => messages'[i].content = <<"Failed to fetch">>
            /\ DeliverResponse(t) =>
                 messages'[i].content =
                   <<"HTTP error! status: ">>
                     \o NatToString(The(chatReqs[t].resp).status)
            /\ messages'[i].executionTime = None
            /\ ~isProcessing'
            /\ ~status'.isProcessing
            /\ Len(messages') = Len(messages)
            /\ \A j \in DOMAIN messages : j # i => messages'[j] = messages[j]
            /\ messages'[i - 1].role = "user"
            /\ messages'[i - 1].content = calls[t].content
    ]_vars

C12_Witness ==
  /\ Len(calls) = 1
  /\ calls[1].result = Throw(<<"HTTP error! status: ", "5", "0", "3">>)
  /\ messages[1].content = <<"a">>
  /\ messages[1].status = "sent"
  /\ messages[2].status = "error"
  /\ messages[2].content = <<"HTTP error! status: ", "5", "0", "3">>
  /\ messages[2].executionTime = None
  /\ ~isProcessing

\* C13: a turn whose request the relay holds without answering ends, by the
\* page's own doing, with its assistant message in status error and the
\* timeout message as content.
C13_UnansweredTurnTimesOut ==
  \A t \in 1..MaxTurns :
    (InFlight(t) /\ chatReqs[t].stage = "atBackend")
      ~> /\ t \in DOMAIN calls
         /\ calls[t].pc = "done"
         /\ AssistantOf(t).status = "error"
         /\ AssistantOf(t).content =
              <<"Request timeout - the agent took too long to respond">>

\* C14: when the page's fetch cannot reach the relay, the turn's assistant
\* message becomes error with the cannot-connect message as content.
C14_UnreachableRelayMessage ==
  [][\A t \in DOMAIN calls :
       FetchFails(t) =>
         LET i == IndexOf(messages, calls[t].assistantMessageId)
         IN /\ messages'[i].status = "error"
            /\ messages'[i].content =
                 <<"Cannot connect to AI agent. Please make sure the Python backend is running.">>
    ]_vars

\* C15: at most one turn is in flight; it is the latest one and holds the one
\* controller abortControllerRef points at; each turn created one controller.
C15_SingleFlight ==
  /\ Cardinality({t \in DOMAIN calls : InFlight(t)}) <= 1
  /\ \A t \in DOMAIN calls :
       InFlight(t) =>
         /\ t = Len(calls)
         /\ abortControllerRef = calls[t].controller
  /\ Len(controllers) = Len(calls)
  /\ Len(chatReqs) = Len(calls)
  /\ abortControllerRef # Null => abortControllerRef = Len(controllers)

\* a second turn in flight alone, after the first one settled
C15_Witness ==
  /\ Len(calls) = 2
  /\ calls[1].pc = "done"
  /\ InFlight(2)
  /\ abortControllerRef = calls[2].controller

\* C16: isProcessing and status.isProcessing are equal, and true exactly
\* while a turn is in flight.
C16_ProcessingFlagsAgree ==
  /\ isProcessing = status.isProcessing
  /\ isProcessing <=> Busy

C16_Witness ==
  /\ Len(calls) = 2
  /\ calls[1].pc = "done"
  /\ Busy
  /\ isProcessing
  /\ status.isProcessing

\* C17: abortControllerRef is null whenever no turn is in flight; a step that
\* starts a turn finds it null and stores a controller no turn has held, not
\* aborted; a step that settles a turn, however it settles, finds that turn's
\* controller and nulls it; no other step changes it.
C17_TokenPerTurn ==
  [][/\ Idle => abortControllerRef = Null
     /\ Idle' => abortControllerRef' = Null
     /\ Len(calls') # Len(calls) =>
          /\ abortControllerRef = Null
          /\ abortControllerRef' = calls'[Len(calls')].controller
          /\ abortControllerRef' \notin DOMAIN controllers
          /\ \A t \in DOMAIN calls : calls[t].controller # abortControllerRef'
          /\ ~controllers'[abortControllerRef']
     /\ \A t \in DOMAIN calls :
          Settles(t) =>
            /\ abortControllerRef = calls[t].controller
            /\ abortControllerRef' = Null
     /\ abortControllerRef' # abortControllerRef =>
          \/ Len(calls') # Len(calls)
          \/ \E t \in DOMAIN calls : Settles(t)
    ]_vars

\* two turns, one ended by a reply and one by a stop, and no controller held
C17_Witness ==
  /\ Len(calls) = 2
  /\ calls[1].result.kind = "return"
  /\ calls[2].result = Throw(<<"Request was cancelled">>)
  /\ calls[1].controller # calls[2].controller
  /\ abortControllerRef = Null
  /\ Idle

\* C18: every step keeps each message of the ledger at its position with its
\* id, role and timestamp; ids stay distinct; a message changes only when the
\* turn whose placeholder it is settles, and that step changes no other.
C18_LedgerAppendOnly ==
  [][/\ Len(messages') >= Len(messages)
     /\ \A i \in DOMAIN messages :
          /\ messages'[i].id = messages[i].id
          /\ messages'[i].role = messages[i].role
          /\ messages'[i].timestamp = messages[i].timestamp
          /\ messages'[i] # messages[i] =>
               /\ messages[i].role = "assistant"
               /\ \E t \in DOMAIN calls :
                    /\ Settles(t)
                    /\ calls[t].assistantMessageId = messages[i].id
               /\ Len(messages') = Len(messages)
               /\ \A j \in DOMAIN messages : j # i => messages'[j] = messages[j]
     /\ \A i, j \in DOMAIN messages' :
          messages'[i].id = messages'[j].id => i = j
    ]_vars

C18_Witness ==
  /\ Len(messages) = 4
  /\ messages[1].content = <<"a">>
  /\ messages[2].status = "error"
  /\ messages[3].content = <<"a">>
  /\ messages[4].status = "sent"

\* C19: an assistant message in status sending is the empty placeholder; one
\* in status sent or error carries the non-empty text its turn's sendToAgent
\* returned or threw, and an executionTime exactly when it is sent.
C19_TerminalStatusWithContent ==
  \A i \in DOMAIN messages :
    messages[i].role = "assistant" =>
      /\ messages[i].status = "sending" =>
           /\ messages[i].content = <<>>
           /\ messages[i].executionTime = None
      /\ messages[i].status \in {"sent", "error"} =>
           /\ messages[i].content # <<>>
           /\ \E t \in DOMAIN calls :
                /\ calls[t].assistantMessageId = messages[i].id
                /\ calls[t].pc = "done"
                /\ calls[t].result.text # <<>>
                /\ messages[i].content = calls[t].result.text
                /\ messages[i].status = "sent" <=> calls[t].result.kind = "return"
           /\ messages[i].status = "sent" <=> messages[i].executionTime # None

C19_Witness ==
  /\ Len(calls) = 1
  /\ calls[1].result = Throw(<<"Failed to fetch">>)
  /\ messages[2].status = "error"
  /\ messages[2].content = <<"Failed to fetch">>

\* the screen shows the settled state, the agent is connected and the draft is
\* not blank, after a turn that ended in an error
ReadyAfterError ==
  /\ Len(calls) \in 1..(MaxTurns - 1)
  /\ calls[Len(calls)].pc = "done"
  /\ calls[Len(calls)].result.kind = "throw"
  /\ view = Snapshot(isMounted, isProcessing, status, messages)
  /\ status.isConnected
  /\ Trim(message) # <<>>

\* C20: a turn that settles with an error, whatever the error, leaves no turn
\* in flight, no controller held, isProcessing false and no exception
\* unhandled; and once that state is on screen, a submit of a non-blank draft
\* while connected starts a new turn.
C20_NoFailureIsFatal ==
  /\ [][\A t \in DOMAIN calls :
          (Settles(t) /\ calls'[t].result.kind = "throw") =>
            /\ Idle'
            /\ abortControllerRef' = Null
            /\ ~isProcessing'
            /\ ~status'.isProcessing
            /\ ~unhandled'
       ]_vars
  /\ [](ReadyAfterError =>
          ENABLED (HandleSubmit /\ Len(calls') = Len(calls) + 1))

C20_Witness ==
  /\ Len(calls) = 2
  /\ calls[1].result.kind = "throw"
  /\ messages[2].status = "error"
  /\ InFlight(2)
  /\ messages[4].status = "sending"

\* C21: a step that issues or settles a probe leaves the ledger, isProcessing,
\* the controller ref, the controllers and the turns as they are and changes
\* of status at most isConnected; isConnected changes only in a step that
\* settles a probe; model and endpoint never change; a step that starts,
\* stops or settles a turn leaves isConnected as it is.
C21_ProbeWritesOnlyIsConnected ==
  [][/\ probes' # probes =>
          /\ UNCHANGED <<messages, isProcessing, abortControllerRef,
                         controllers, calls, chatReqs, nextId>>
          /\ status' = [status EXCEPT !.isConnected = status'.isConnected]
     /\ status'.isConnected # status.isConnected =>
          \E p \in DOMAIN probes :
            probes[p] = "pending" /\ probes'[p] = "settled"
     /\ status'.model = status.model
     /\ status'.endpoint = status.endpoint
     /\ (calls' # calls \/ controllers' # controllers) =>
          status'.isConnected = status.isConnected
    ]_vars

\* a probe failed while a turn is in flight, and the turn is as it was
C21_Witness ==
  /\ Len(calls) = 1
  /\ InFlight(1)
  /\ ~status.isConnected
  /\ status.isProcessing
  /\ isProcessing
  /\ abortControllerRef = calls[1].controller
  /\ messages[2].status = "sending"

\* C22: mounting issues the first probe and registers the timer; probes are
\* issued only by mounting and by timer ticks, one each; teardown releases the
\* timer, and once torn down the timer stays released, no probe is issued and
\* status is never written again.
C22_TimerReleasedOnTeardown ==
  [][/\ Mount => probes' = <<"pending">> /\ interval'
     /\ Len(probes') # Len(probes) =>
          /\ Mount \/ Tick
          /\ Len(probes') = Len(probes) + 1
     /\ interval' # interval => Mount \/ Unmount
     /\ Unmount => ~interval'
     /\ tornDown =>
          /\ tornDown'
          /\ ~interval'
          /\ Len(probes') = Len(probes)
          /\ status' = status
    ]_vars

\* a probe that was pending at teardown has settled since, and was dropped
C22_Witness ==
  /\ tornDown
  /\ ~interval
  /\ \E p \in DOMAIN probes : probes[p] = "dropped"
  /\ Len(probeLog) < Len(probes)

\* C23: the relay answers 408 for a timed-out backend fetch, 503 for a refused
\* connection and 500 for every other failure, always with an error body; a
\* non-2xx answer ends the turn with 'HTTP error! status: ' and the status
\* code, a stop with 'Request was cancelled'; the four messages differ.
C23_FailuresDistinct ==
  [][/\ \A t \in DOMAIN chatReqs :
          (chatReqs[t].stage = "atBackend" /\ chatReqs'[t].stage = "toClient") =>
            /\ \A backend \in BackendOutcomes :
                 LET r == RelayPOST(chatReqs[t].message, backend)
                 IN /\ r.status = CASE backend.kind = "ok" -> 200
                                    [] backend.kind = "timeout" -> 408
                                    [] backend.kind = "refused" -> 503
                                    [] OTHER -> 500
                    /\ r.status # 200 =>
                         r.body.error # None /\ r.body.response = None
            /\ \E backend \in BackendOutcomes :
                 chatReqs'[t].resp =
                   Some(RelayPOST(chatReqs[t].message, backend))
     /\ \A t \in DOMAIN calls :
          Settles(t) =>
            /\ Aborted(t) =>
                 calls'[t].result = Throw(<<"Request was cancelled">>)
            /\ (/\ ~Aborted(t)
                /\ chatReqs[t].stage = "toClient"
                /\ The(chatReqs[t].resp).status \notin 200..299) =>
                 calls'[t].result =
                   Throw(<<"HTTP error! status: ">>
                           \o NatToString(The(chatReqs[t].resp).status))
            /\ Cardinality({HttpErrorMessage([status |-> 408]),
                            HttpErrorMessage([status |-> 503]),
                            HttpErrorMessage([status |-> 500]),
                            <<"Request was cancelled">>}) = 4
    ]_vars

C23_Witness ==
  /\ Len(calls) = 2
  /\ calls[1].result = Throw(<<"HTTP error! status: ", "4", "0", "8">>)
  /\ calls[2].result = Throw(<<"Request was cancelled">>)
  /\ messages[2].content = <<"HTTP error! status: ", "4", "0", "8">>
  /\ messages[4].content = <<"Request was cancelled">>

\* C24: when the backend's 2xx body has no response field, the reply text the
\* relay hands to the page is the result value if there is one, and empty
\* otherwise.
C24_MissingResponseIsEmptyReply ==
  [][\A t \in DOMAIN chatReqs, backend \in BackendOutcomes :
       (/\ BackendSettle(t, backend)
        /\ InFlight(t)
        /\ backend.kind = "ok"
        /\ backend.data.response = None) =>
         The(chatReqs'[t].resp).body.response =
           Some(IF backend.data.result # None
                THEN The(backend.data.result)
                ELSE <<>>)
    ]_vars

\* C25: whenever a turn is in flight and the screen shows the current state,
\* the stop button takes clicks.
C25_StopEnabledWhileBusy ==
  (/\ Busy
   /\ ~tornDown
   /\ view = Snapshot(isMounted, isProcessing, status, messages))
    => StopClickable

\* C26: a probe that settles after a probe issued later has settled leaves
\* isConnected as the later probe set it.
C26_LateProbeDoesNotOverwrite ==
  [][\A p \in DOMAIN probes :
       (/\ probes[p] = "pending"
        /\ probes'[p] = "settled"
        /\ \E q \in DOMAIN probes : q > p /\ probes[q] = "settled") =>
         status'.isConnected = status.isConnected
    ]_vars

\* C27: the relay has at most one chat request of this page outstanding at
\* the backend.
C27_OneBackendRequest ==
  Cardinality({t \in DOMAIN chatReqs : chatReqs[t].stage = "atBackend"}) <= 1

\* C28: a controller is aborted only by a stop, and only the controller of the
\* turn in flight at that moment; a turn starts only when every earlier turn
\* has settled, with a controller that is not aborted; a settling turn is the
\* latest one, ends as cancelled exactly when its own controller was aborted,
\* and leaves every other turn as it is.
C28_CancelAffectsOnlyItsTurn ==
  [][/\ \A c \in DOMAIN controllers :
          (~controllers[c] /\ controllers'[c]) =>
            /\ HandleStopProcessing
            /\ abortControllerRef = c
            /\ \E t \in DOMAIN calls : InFlight(t) /\ calls[t].controller = c
     /\ Len(calls') # Len(calls) =>
          /\ \A t \in DOMAIN calls : calls[t].pc = "done" /\ calls'[t] = calls[t]
          /\ ~controllers'[calls'[Len(calls')].controller]
     /\ \A t \in DOMAIN calls :
          Settles(t) =>
            /\ t = Len(calls)
            /\ Len(calls') = Len(calls)
            /\ calls'[t].result = Throw(<<"Request was cancelled">>)
                 <=> Aborted(t)
            /\ \A u \in DOMAIN calls : u # t => calls'[u] = calls[u]
    ]_vars

\* the first turn was stopped, the second one got its reply
C28_Witness ==
  /\ Len(calls) = 2
  /\ calls[1].result = Throw(<<"Request was cancelled">>)
  /\ calls[2].result.kind = "return"
  /\ controllers = <<TRUE, FALSE>>
  /\ messages[2].status = "error"
  /\ messages[4].status = "sent"

\* C29: at most one message is in status sending; it is an assistant message
\* and the last of the ledger; there is one exactly when isProcessing.
C29_OneSendingAtTheEnd ==
  LET sending == {i \in DOMAIN messages : messages[i].status = "sending"}
  IN /\ Cardinality(sending) <= 1
     /\ \A i \in sending :
          messages[i].role = "assistant" /\ i = Len(messages)
     /\ sending # {} <=> isProcessing

C29_Witness ==
  /\ Len(messages) = 4
  /\ messages[2].status = "sent"
  /\ messages[4].status = "sending"
  /\ messages[4].role = "assistant"
  /\ isProcessing

\* C30: the ledger holds two messages per turn, the turn's user message (status
\* sent, the submitted text) directly followed by the turn's assistant
\* message, so it alternates user, assistant from a user message on.
C30_LedgerAlternates ==
  /\ Len(messages) = 2 * Len(calls)
  /\ \A i \in DOMAIN messages :
       IF i % 2 = 1
       THEN messages[i].role = "user" /\ messages[i].status = "sent"
       ELSE messages[i].role = "assistant"
  /\ \A t \in DOMAIN calls :
       /\ messages[2 * t - 1].content = calls[t].content
       /\ messages[2 * t].id = calls[t].assistantMessageId
       /\ messages[2 * t - 1].timestamp = messages[2 * t].timestamp

C30_Witness ==
  /\ Len(messages) = 4
  /\ messages[1].role = "user"
  /\ messages[2].status = "error"
  /\ messages[3].role = "user"
  /\ messages[4].status = "error"
  /\ Idle

====
